---- MODULE Spec2Model ----
(***************************************************************************)
(* Smart Task Assistant: the task store (src/lib/task-utils.ts), the agent *)
(* route that applies a batch of tool calls to it (api/agent/route.ts) and *)
(* the client component that owns the store (components/TaskAgent.tsx).    *)
(*                                                                         *)
(* Strings are sequences of one-character strings, so that trim,           *)
(* toLowerCase, parseInt, split and includes are computed as JavaScript    *)
(* computes them.  The fixed parts of a message template are kept as one   *)
(* element each (they are only ever compared, never parsed).               *)
(***************************************************************************)
EXTENDS Integers, Sequences, FiniteSets, TLC

VARIABLES
    state,              \* TaskAgent: the React state (the client's TaskState)
    isLoading,          \* TaskAgent: a request started by sendMessage is in flight
    currentState,       \* route: the snapshot carried by the request in flight
    updatedState,       \* route: the store threaded through the tool loop
    actionsTaken,       \* route: the summaries collected so far
    agentTextResponse,  \* route: the text of the last text block
    processed,          \* route: the blocks handled so far: block, id and clock read, summary
    clock,              \* the value new Date() returns
    nextId,             \* the uuid generator: ids below nextId have been issued
    content,            \* route: response.content, the blocks of the reply being processed
    toolCalls,          \* number of blocks the reasoning service has emitted so far
    directActions,      \* number of direct UI actions taken so far
    call                \* the pure function applied last, its arguments and its result

vars == <<state, isLoading, currentState, updatedState, actionsTaken,
          agentTextResponse, processed, clock, nextId, content, toolCalls,
          directActions, call>>

-----------------------------------------------------------------------------
(* Bounds of the model *)

\* blocks the reasoning service emits in one behaviour, over all its replies,
\* when the route runs alone (SpecRoute)
MaxBlocks == 3
\* the same, when the client runs too (Spec)
MaxClientBlocks == 2
\* direct UI actions (toggle, delete, filter pill) in one behaviour
MaxDirect == 1
\* length of the task lists the pure functions are applied to
MaxTasks == 3

-----------------------------------------------------------------------------
(* JavaScript values *)

\* undefined where a string is expected (no string has this element)
undefined == <<"\\undefined">>

\* undefined where a timestamp is expected
undefinedTime == -1

\* the result of Array.prototype.find that found nothing
notFound == <<>>

NaN == [isNaN |-> TRUE, value |-> 0]

WhiteSpace == {" ", "\t", "\n"}

UpperCase == <<"A","B","C","D","E","F","G","H","I","J","K","L","M",
               "N","O","P","Q","R","S","T","U","V","W","X","Y","Z">>
LowerCase == <<"a","b","c","d","e","f","g","h","i","j","k","l","m",
               "n","o","p","q","r","s","t","u","v","w","x","y","z">>
Digits == <<"0","1","2","3","4","5","6","7","8","9">>

IsDigit(c) == \E i \in DOMAIN Digits : Digits[i] = c

DigitValue(c) == (CHOOSE i \in DOMAIN Digits : Digits[i] = c) - 1

toLowerCaseChar(c) ==
    IF \E i \in DOMAIN UpperCase : UpperCase[i] = c
    THEN LowerCase[CHOOSE i \in DOMAIN UpperCase : UpperCase[i] = c]
    ELSE c

toLowerCase(s) == [i \in DOMAIN s |-> toLowerCaseChar(s[i])]

toUpperCase(s) ==
    [i \in DOMAIN s |->
        IF \E k \in DOMAIN LowerCase : LowerCase[k] = s[i]
        THEN UpperCase[CHOOSE k \in DOMAIN LowerCase : LowerCase[k] = s[i]]
        ELSE s[i]]

trimStart(s) ==
    LET n == CHOOSE k \in 0..Len(s) :
                 /\ \A i \in 1..k : s[i] \in WhiteSpace
                 /\ (k = Len(s) \/ s[k + 1] \notin WhiteSpace)
    IN  SubSeq(s, n + 1, Len(s))

trimEnd(s) ==
    LET n == CHOOSE k \in 0..Len(s) :
                 /\ \A i \in (k + 1)..Len(s) : s[i] \in WhiteSpace
                 /\ (k = 0 \/ s[k] \notin WhiteSpace)
    IN  SubSeq(s, 1, n)

trim(s) == trimEnd(trimStart(s))

\* an includes that finds the empty string nowhere
includesNonEmpty(s, search) ==
    /\ search # <<>>
    /\ \E i \in 0..(Len(s) - Len(search)) : SubSeq(s, i + 1, i + Len(search)) = search

\* String.prototype.includes
includes(s, search) ==
    \E i \in 0..(Len(s) - Len(search)) : SubSeq(s, i + 1, i + Len(search)) = search

RECURSIVE Decimal(_)
Decimal(ds) ==
    IF ds = <<>> THEN 0
    ELSE 10 * Decimal(SubSeq(ds, 1, Len(ds) - 1)) + DigitValue(ds[Len(ds)])

\* parseInt(s, 10): leading white space, an optional sign, then the longest
\* run of decimal digits; whatever follows the digits is ignored
parseInt(s) ==
    LET t      == trimStart(s)
        signed == t # <<>> /\ t[1] \in {"+", "-"}
        body   == IF signed THEN Tail(t) ELSE t
        n      == CHOOSE k \in 0..Len(body) :
                      /\ \A i \in 1..k : IsDigit(body[i])
                      /\ (k = Len(body) \/ ~IsDigit(body[k + 1]))
        v      == Decimal(SubSeq(body, 1, n))
    IN  IF n = 0 THEN NaN
        ELSE [isNaN |-> FALSE, value |-> IF signed /\ t[1] = "-" THEN 0 - v ELSE v]

\* s.split(sep) for a one-character separator
RECURSIVE split(_, _)
split(s, sep) ==
    IF \E i \in DOMAIN s : s[i] = sep
    THEN LET k == CHOOSE i \in DOMAIN s :
                      s[i] = sep /\ \A j \in 1..(i - 1) : s[j] # sep
         IN  <<SubSeq(s, 1, k - 1)>> \o split(SubSeq(s, k + 1, Len(s)), sep)
    ELSE <<s>>

\* !x for a string or undefined
Falsy(s) == s = undefined \/ s = <<>>

-----------------------------------------------------------------------------
(* String literals of the source *)

s_low == <<"l","o","w">>
s_medium == <<"m","e","d","i","u","m">>
s_high == <<"h","i","g","h">>
s_all == <<"a","l","l">>
s_priority == <<"p","r","i","o","r","i","t","y">>
s_completed == <<"c","o","m","p","l","e","t","e","d">>
s_active == <<"a","c","t","i","v","e">>
s_category == <<"c","a","t","e","g","o","r","y">>
s_true == <<"t","r","u","e">>
s_false == <<"f","a","l","s","e">>
s_last == <<"l","a","s","t">>
s_first == <<"f","i","r","s","t">>
s_task == <<"t","a","s","k">>
s_work == <<"w","o","r","k">>
s_personal == <<"p","e","r","s","o","n","a","l">>
s_completed_true == s_completed \o <<":">> \o s_true
s_completed_false == s_completed \o <<":">> \o s_false
s_priority_high == s_priority \o <<":">> \o s_high

\* the absent summary of a tool call
null == <<"\\null">>

-----------------------------------------------------------------------------
(* src/lib/task-utils.ts *)

\* createTask that takes the creation time as the id
createTaskIdFromClock(title, priority, category, id, now) ==
    [id          |-> now,
     title       |-> trim(title),
     priority    |-> priority,
     category    |-> trim(category),
     completed   |-> FALSE,
     createdAt   |-> now,
     completedAt |-> undefinedTime]

\* id and now are what uuidv4() and new Date() return to this call
createTask(title, priority, category, id, now) ==
    [id          |-> id,
     title       |-> trim(title),
     priority    |-> priority,
     category    |-> trim(category),
     completed   |-> FALSE,
     createdAt   |-> now,
     completedAt |-> undefinedTime]

\* addTask that puts the new task first
addTaskFirst(st, task) == [st EXCEPT !.tasks = <<task>> \o st.tasks]

addTask(st, task) == [st EXCEPT !.tasks = Append(st.tasks, task)]

\* completeTask that stamps createdAt as well
completeTaskRestamps(st, taskId, now) ==
    [st EXCEPT !.tasks =
        [i \in DOMAIN st.tasks |->
            IF st.tasks[i].id = taskId
            THEN [st.tasks[i] EXCEPT !.completed = TRUE, !.completedAt = now,
                                     !.createdAt = now]
            ELSE st.tasks[i]]]

completeTask(st, taskId, now) ==
    [st EXCEPT !.tasks =
        [i \in DOMAIN st.tasks |->
            IF st.tasks[i].id = taskId
            THEN [st.tasks[i] EXCEPT !.completed = TRUE, !.completedAt = now]
            ELSE st.tasks[i]]]

\* uncompleteTask that leaves the completion stamp in place
uncompleteTaskKeepsStamp(st, taskId) ==
    [st EXCEPT !.tasks =
        [i \in DOMAIN st.tasks |->
            IF st.tasks[i].id = taskId
            THEN [st.tasks[i] EXCEPT !.completed = FALSE]
            ELSE st.tasks[i]]]

uncompleteTask(st, taskId) ==
    [st EXCEPT !.tasks =
        [i \in DOMAIN st.tasks |->
            IF st.tasks[i].id = taskId
            THEN [st.tasks[i] EXCEPT !.completed = FALSE, !.completedAt = undefinedTime]
            ELSE st.tasks[i]]]

\* deleteTask that removes the task and the one after it
deleteTaskSplicesTwo(st, taskId) ==
    LET hit == {k \in DOMAIN st.tasks : st.tasks[k].id = taskId}
    IN  IF hit = {} THEN st
        ELSE LET k == CHOOSE h \in hit : TRUE
             IN  [st EXCEPT !.tasks = SubSeq(st.tasks, 1, k - 1)
                                        \o SubSeq(st.tasks, k + 2, Len(st.tasks))]

deleteTask(st, taskId) ==
    [st EXCEPT !.tasks = SelectSeq(st.tasks, LAMBDA task : task.id # taskId)]

\* Array.prototype.find: <<the first element the callback accepts>>, or notFound;
\* accepted is the set of positions whose element the callback accepts
find(list, accepted) ==
    IF accepted = {}
    THEN notFound
    ELSE <<list[CHOOSE i \in accepted : \A j \in accepted : i <= j]>>

\* the callback of findTaskByIdentifier: task.title.toLowerCase().includes(normalized)
TitleIncludes(list, normalized) ==
    {i \in DOMAIN list : includes(toLowerCase(list[i].title), normalized)}

\* a resolver that tries the titles before the position
findTaskByIdentifierTitleFirst(list, identifier) ==
    LET normalized == trim(toLowerCase(identifier))
        index      == parseInt(normalized)
        byTitle    == find(list, TitleIncludes(list, normalized))
    IN  IF byTitle # notFound THEN byTitle
        ELSE IF ~index.isNaN /\ index.value >= 1 /\ index.value <= Len(list)
        THEN <<list[index.value]>>
        ELSE IF normalized = s_last \/ normalized = s_last \o <<" ">> \o s_task
        THEN (IF Len(list) > 0 THEN <<list[Len(list)]>> ELSE notFound)
        ELSE IF normalized = s_first \/ normalized = s_first \o <<" ">> \o s_task
        THEN (IF Len(list) > 0 THEN <<list[1]>> ELSE notFound)
        ELSE notFound

\* a resolver that gives up on a number that is no position
findTaskByIdentifierNumberOnly(list, identifier) ==
    LET normalized == trim(toLowerCase(identifier))
        index      == parseInt(normalized)
    IN  IF ~index.isNaN
        THEN (IF index.value >= 1 /\ index.value <= Len(list)
              THEN <<list[index.value]>> ELSE notFound)
        ELSE IF normalized = s_last \/ normalized = s_last \o <<" ">> \o s_task
        THEN (IF Len(list) > 0 THEN <<list[Len(list)]>> ELSE notFound)
        ELSE IF normalized = s_first \/ normalized = s_first \o <<" ">> \o s_task
        THEN (IF Len(list) > 0 THEN <<list[1]>> ELSE notFound)
        ELSE find(list, TitleIncludes(list, normalized))

\* a resolver that compares the keywords with the identifier as it was given
findTaskByIdentifierRawKeyword(list, identifier) ==
    LET normalized == trim(toLowerCase(identifier))
        index      == parseInt(normalized)
    IN  IF ~index.isNaN /\ index.value >= 1 /\ index.value <= Len(list)
        THEN <<list[index.value]>>
        ELSE IF identifier = s_last \/ identifier = s_last \o <<" ">> \o s_task
        THEN (IF Len(list) > 0 THEN <<list[Len(list)]>> ELSE notFound)
        ELSE IF identifier = s_first \/ identifier = s_first \o <<" ">> \o s_task
        THEN (IF Len(list) > 0 THEN <<list[1]>> ELSE notFound)
        ELSE find(list, TitleIncludes(list, normalized))

findTaskByIdentifier(list, identifier) ==
    LET normalized == trim(toLowerCase(identifier))
        index      == parseInt(normalized)
    IN  IF ~index.isNaN /\ index.value >= 1 /\ index.value <= Len(list)
        THEN <<list[index.value]>>
        ELSE IF normalized = s_last \/ normalized = s_last \o <<" ">> \o s_task
        THEN (IF Len(list) > 0 THEN <<list[Len(list)]>> ELSE notFound)
        ELSE IF normalized = s_first \/ normalized = s_first \o <<" ">> \o s_task
        THEN (IF Len(list) > 0 THEN <<list[1]>> ELSE notFound)
        ELSE find(list, TitleIncludes(list, normalized))

\* filterTasks that shows nothing for a key it does not know
filterTasksUnknownHidesAll(list, filter) ==
    IF Falsy(filter) \/ filter = s_all
    THEN list
    ELSE LET parts       == split(filter, ":")
             filterType  == toLowerCase(parts[1])
             filterValue == IF Len(parts) >= 2 THEN parts[2] ELSE undefined
             showCompleted == (filterValue = s_true)
         IN  CASE filterType = s_priority ->
                    SelectSeq(list, LAMBDA task : task.priority = filterValue)
               [] filterType = s_completed ->
                    SelectSeq(list, LAMBDA task : task.completed = showCompleted)
               [] filterType = s_active ->
                    SelectSeq(list, LAMBDA task : ~task.completed)
               [] filterType = s_category ->
                    SelectSeq(list, LAMBDA task :
                        /\ filterValue # undefined
                        /\ toLowerCase(task.category) = toLowerCase(filterValue))
               [] OTHER -> <<>>

\* filterTasks that compares the category as it is written
filterTasksCategoryExact(list, filter) ==
    IF Falsy(filter) \/ filter = s_all
    THEN list
    ELSE LET parts       == split(filter, ":")
             filterType  == toLowerCase(parts[1])
             filterValue == IF Len(parts) >= 2 THEN parts[2] ELSE undefined
             showCompleted == (filterValue = s_true)
         IN  CASE filterType = s_priority ->
                    SelectSeq(list, LAMBDA task : task.priority = filterValue)
               [] filterType = s_completed ->
                    SelectSeq(list, LAMBDA task : task.completed = showCompleted)
               [] filterType = s_active ->
                    SelectSeq(list, LAMBDA task : ~task.completed)
               [] filterType = s_category ->
                    SelectSeq(list, LAMBDA task : task.category = filterValue)
               [] OTHER -> list

filterTasks(list, filter) ==
    IF Falsy(filter) \/ filter = s_all
    THEN list
    ELSE LET parts       == split(filter, ":")
             filterType  == toLowerCase(parts[1])
             filterValue == IF Len(parts) >= 2 THEN parts[2] ELSE undefined
             showCompleted == (filterValue = s_true)
         IN  CASE filterType = s_priority ->
                    SelectSeq(list, LAMBDA task : task.priority = filterValue)
               [] filterType = s_completed ->
                    SelectSeq(list, LAMBDA task : task.completed = showCompleted)
               [] filterType = s_active ->
                    SelectSeq(list, LAMBDA task : ~task.completed)
               [] filterType = s_category ->
                    SelectSeq(list, LAMBDA task :
                        /\ filterValue # undefined
                        /\ toLowerCase(task.category) = toLowerCase(filterValue))
               [] OTHER -> list

createFilter(filterType, filterValue) ==
    IF filterType = s_all THEN undefined
    ELSE IF filterType = s_active THEN s_completed_false
    ELSE IF filterType = s_completed THEN s_completed_true
    ELSE IF filterType = s_priority /\ ~Falsy(filterValue)
    THEN s_priority \o <<":">> \o toLowerCase(filterValue)
    ELSE IF filterType = s_category /\ ~Falsy(filterValue)
    THEN s_category \o <<":">> \o toLowerCase(filterValue)
    ELSE undefined

createInitialState ==
    [tasks |-> <<>>, filter |-> undefined, agentMessage |-> undefined]

\* The demo timestamps, in units of an hour before DemoNow
DemoNow == 24

createDemoState ==
    [tasks |-> <<
        [id |-> 1, title |-> <<"R","e","v","i","e","w"," ","P","R">>,
         priority |-> s_high, category |-> s_work, completed |-> FALSE,
         createdAt |-> DemoNow - 1, completedAt |-> undefinedTime],
        [id |-> 2, title |-> <<"B","u","y"," ","e","g","g","s">>,
         priority |-> s_medium, category |-> s_personal, completed |-> FALSE,
         createdAt |-> DemoNow - 2, completedAt |-> undefinedTime],
        [id |-> 3, title |-> <<"D","e","n","t","i","s","t">>,
         priority |-> s_low, category |-> s_personal, completed |-> TRUE,
         createdAt |-> DemoNow - 24, completedAt |-> DemoNow - 12] >>,
     filter |-> undefined,
     agentMessage |-> <<"Welcome! Try saying \"add a task\" or \"what's urgent?\"">>]

\* str.charAt(0).toUpperCase() + str.slice(1); on undefined the template prints
\* "undefined" twice
Capitalized(s) ==
    IF s = undefined THEN <<"undefinedundefined">>
    ELSE IF s = <<>> THEN <<>>
    ELSE toUpperCase(<<s[1]>>) \o Tail(s)

getFilterDescription(filter) ==
    IF Falsy(filter) THEN <<"All Tasks">>
    ELSE LET parts       == split(filter, ":")
             filterType  == parts[1]
             filterValue == IF Len(parts) >= 2 THEN parts[2] ELSE undefined
         IN  CASE filterType = s_priority -> Capitalized(filterValue) \o <<" Priority">>
               [] filterType = s_completed ->
                    (IF filterValue = s_true THEN <<"Completed Tasks">>
                                             ELSE <<"Active Tasks">>)
               [] filterType = s_category -> <<"Category: ">> \o Capitalized(filterValue)
               [] OTHER -> <<"All Tasks">>

-----------------------------------------------------------------------------
(* api/agent/route.ts *)

NoInput ==
    [title |-> undefined, priority |-> undefined, category |-> undefined,
     taskIdentifier |-> undefined, filterType |-> undefined, filterValue |-> undefined]

ToolUse(name, input) == [type |-> "tool_use", name |-> name, input |-> input, text |-> <<>>]

Text(text) == [type |-> "text", name |-> "", input |-> NoInput, text |-> text]

\* case 'add_task'
addTaskCall(input, st, id, now) ==
    LET task == createTask(input.title,
                           IF Falsy(input.priority) THEN s_medium ELSE input.priority,
                           IF Falsy(input.category) THEN <<>> ELSE input.category,
                           id, now)
    IN  [state  |-> addTask(st, task),
         action |-> <<"Added \"">> \o task.title \o <<"\"">>]

\* a miss that leaves the message of the store alone
notFoundResultSilent(st, identifier) == [state |-> st, action |-> null]

\* if (!task) return {state: {...state, agentMessage: `Couldn't find ...`}, action: null}
notFoundResult(st, identifier) ==
    [state  |-> [st EXCEPT !.agentMessage =
                    <<"Couldn't find a task matching \"">> \o identifier \o <<"\"">>],
     action |-> null]

\* complete_task without the check for a task that is already complete
completeTaskCallUnchecked(input, st, now) ==
    LET task == findTaskByIdentifier(st.tasks, input.taskIdentifier)
    IN  IF task = notFound
        THEN notFoundResult(st, input.taskIdentifier)
        ELSE [state  |-> completeTask(st, task[1].id, now),
              action |-> <<"Completed \"">> \o task[1].title \o <<"\"">>]

\* complete_task that completes every task with the title of the one it found
completeTaskCallByTitle(input, st, now) ==
    LET task == findTaskByIdentifier(st.tasks, input.taskIdentifier)
    IN  IF task = notFound
        THEN notFoundResult(st, input.taskIdentifier)
        ELSE IF task[1].completed
        THEN [state  |-> [st EXCEPT !.agentMessage =
                            <<"\"">> \o task[1].title \o <<"\" is already complete">>],
              action |-> null]
        ELSE [state  |-> [st EXCEPT !.tasks =
                            [i \in DOMAIN st.tasks |->
                                IF st.tasks[i].title = task[1].title
                                THEN [st.tasks[i] EXCEPT !.completed = TRUE,
                                                         !.completedAt = now]
                                ELSE st.tasks[i]]],
              action |-> <<"Completed \"">> \o task[1].title \o <<"\"">>]

\* case 'complete_task'
completeTaskCall(input, st, now) ==
    LET task == findTaskByIdentifier(st.tasks, input.taskIdentifier)
    IN  IF task = notFound
        THEN notFoundResult(st, input.taskIdentifier)
        ELSE IF task[1].completed
        THEN [state  |-> [st EXCEPT !.agentMessage =
                            <<"\"">> \o task[1].title \o <<"\" is already complete">>],
              action |-> null]
        ELSE [state  |-> completeTask(st, task[1].id, now),
              action |-> <<"Completed \"">> \o task[1].title \o <<"\"">>]

\* case 'uncomplete_task'
uncompleteTaskCall(input, st) ==
    LET task == findTaskByIdentifier(st.tasks, input.taskIdentifier)
    IN  IF task = notFound
        THEN notFoundResult(st, input.taskIdentifier)
        ELSE IF ~task[1].completed
        THEN [state  |-> [st EXCEPT !.agentMessage =
                            <<"\"">> \o task[1].title \o <<"\" is already active">>],
              action |-> null]
        ELSE [state  |-> uncompleteTask(st, task[1].id),
              action |-> <<"Marked \"">> \o task[1].title \o <<"\" as active">>]

\* delete_task that resolves the identifier on the store the request carried
deleteTaskCallOnSnapshot(input, st) ==
    LET task == findTaskByIdentifier(currentState.tasks, input.taskIdentifier)
    IN  IF task = notFound
        THEN notFoundResult(st, input.taskIdentifier)
        ELSE [state  |-> deleteTask(st, task[1].id),
              action |-> <<"Deleted \"">> \o task[1].title \o <<"\"">>]

\* case 'delete_task'
deleteTaskCall(input, st) ==
    LET task == findTaskByIdentifier(st.tasks, input.taskIdentifier)
    IN  IF task = notFound
        THEN notFoundResult(st, input.taskIdentifier)
        ELSE [state  |-> deleteTask(st, task[1].id),
              action |-> <<"Deleted \"">> \o task[1].title \o <<"\"">>]

\* filter_tasks that words its summary by the type it was given
filterTasksCallSummaryByType(input, st) ==
    LET filter == createFilter(input.filterType, input.filterValue)
    IN  [state  |-> [st EXCEPT !.filter = filter],
         action |-> IF input.filterType = s_all THEN <<"Showing all tasks">>
                    ELSE <<"Filtering by ">> \o input.filterType]

\* case 'filter_tasks'
filterTasksCall(input, st) ==
    LET filter == createFilter(input.filterType, input.filterValue)
    IN  [state  |-> [st EXCEPT !.filter = filter],
         action |-> IF Falsy(filter) THEN <<"Showing all tasks">>
                    ELSE <<"Filtering by ">> \o input.filterType]

\* processToolCall that reports a tool it does not know in the message
processToolCallUnknownReported(toolName, input, st, id, now) ==
    CASE toolName = "add_task" -> addTaskCall(input, st, id, now)
      [] toolName = "complete_task" -> completeTaskCall(input, st, now)
      [] toolName = "uncomplete_task" -> uncompleteTaskCall(input, st)
      [] toolName = "delete_task" -> deleteTaskCall(input, st)
      [] toolName = "filter_tasks" -> filterTasksCall(input, st)
      [] OTHER -> [state  |-> [st EXCEPT !.agentMessage = <<"Unknown tool">>],
                   action |-> null]

\* id and now are what uuidv4() and new Date() return if this call reads them
processToolCall(toolName, input, st, id, now) ==
    CASE toolName = "add_task" -> addTaskCall(input, st, id, now)
      [] toolName = "complete_task" -> completeTaskCall(input, st, now)
      [] toolName = "uncomplete_task" -> uncompleteTaskCall(input, st)
      [] toolName = "delete_task" -> deleteTaskCall(input, st)
      [] toolName = "filter_tasks" -> filterTasksCall(input, st)
      [] OTHER -> [state |-> st, action |-> null]

\* actionsTaken.join('. ')
RECURSIVE join(_, _)
join(list, sep) ==
    IF list = <<>> THEN <<>>
    ELSE IF Len(list) = 1 THEN list[1]
    ELSE list[1] \o sep \o join(Tail(list), sep)

\* uuidv4(): an id that was never issued
uuidv4(issuedBelow) == issuedBelow

\* a loop that breaks at the first tool call that yields no summary
LoopDoneAtMiss(blocks, handled) ==
    \/ Len(handled) = Len(blocks)
    \/ /\ handled # <<>>
       /\ handled[Len(handled)].block.type = "tool_use"
       /\ handled[Len(handled)].action = null

\* the for loop over response.content has run to its end
LoopDone(blocks, handled) == Len(handled) = Len(blocks)

\* the values new Date() can return to a call made when it last returned t
Now(t) == {t, t + 1}

ReadsClock(toolName) == toolName \in {"add_task", "complete_task"}

-----------------------------------------------------------------------------
(* The replies of the reasoning service *)

t_buy_milk == <<"b","u","y"," ","m","i","l","k">>
t_walk_dog == <<"w","a","l","k"," ","d","o","g">>
t_blank == <<" ", " ">>

AddInput(title, priority) == [NoInput EXCEPT !.title = title, !.priority = priority]
TaskInput(identifier) == [NoInput EXCEPT !.taskIdentifier = identifier]
FilterInput(filterType, filterValue) ==
    [NoInput EXCEPT !.filterType = filterType, !.filterValue = filterValue]

Blocks ==
    {ToolUse("add_task", AddInput(t_buy_milk, undefined)),
     ToolUse("add_task", AddInput(t_walk_dog, s_high)),
     ToolUse("add_task", AddInput(t_blank, undefined)),
     ToolUse("complete_task", TaskInput(<<"1">>)),
     ToolUse("uncomplete_task", TaskInput(<<"1">>)),
     ToolUse("delete_task", TaskInput(<<"1">>)),
     ToolUse("delete_task", TaskInput(<<"2">>)),
     ToolUse("filter_tasks", FilterInput(s_priority, s_high)),
     ToolUse("list_tasks", NoInput),
     Text(<<"On it.">>)}

\* the replies tried when the client runs too
ClientBlocks ==
    {ToolUse("add_task", AddInput(t_buy_milk, undefined)),
     ToolUse("complete_task", TaskInput(<<"1">>)),
     ToolUse("delete_task", TaskInput(<<"1">>))}

RECURSIVE SeqsUpTo(_, _)
SeqsUpTo(S, n) ==
    IF n = 0 THEN {<<>>}
    ELSE LET shorter == SeqsUpTo(S, n - 1)
         IN  shorter \cup {Append(q, x) : q \in {r \in shorter : Len(r) = n - 1}, x \in S}

-----------------------------------------------------------------------------
(* The state machine *)

NoCall ==
    [fn |-> "none", identifier |-> undefined, filterType |-> undefined,
     filterValue |-> undefined, filter |-> undefined, result |-> <<>>,
     action |-> null, priority |-> undefined]

routeVars == <<currentState, updatedState, actionsTaken, agentTextResponse,
               processed, content>>

RouteIdle ==
    /\ currentState = createInitialState
    /\ updatedState = createInitialState
    /\ actionsTaken = <<>>
    /\ agentTextResponse = <<>>
    /\ processed = <<>>
    /\ content = <<>>

Init ==
    /\ state \in {createInitialState, createDemoState}
    /\ isLoading = FALSE
    /\ RouteIdle
    /\ clock = DemoNow
    /\ nextId = Len(state.tasks) + 1
    /\ toolCalls = 0
    /\ directActions = 0
    /\ call = NoCall

\* InputArea.handleSubmit: if (!trimmed || isLoading) return; the text is not blank
handleSubmitPasses(loading) == ~loading

\* example command buttons that stay enabled while a request is in flight
exampleButtonEnabledAlways(loading) == TRUE

\* the example command buttons: disabled={isLoading}
exampleButtonEnabled(loading) == ~loading

\* TaskAgent.sendMessage up to the fetch, and the route up to the tool loop,
\* called from the input area or from an example command button;
\* the reply is drawn from the blocks of vocabulary, budget blocks per behaviour
sendMessage(vocabulary, budget) ==
    /\ handleSubmitPasses(isLoading) \/ exampleButtonEnabled(isLoading)
    /\ \E reply \in SeqsUpTo(vocabulary, budget - toolCalls) :
          /\ content' = reply
          /\ toolCalls' = toolCalls + Len(reply)
    /\ isLoading' = TRUE
    /\ state' = [state EXCEPT !.agentMessage = undefined]
    /\ currentState' = state
    /\ updatedState' = state
    /\ actionsTaken' = <<>>
    /\ agentTextResponse' = <<>>
    /\ processed' = <<>>
    /\ UNCHANGED <<clock, nextId, directActions, call>>

\* one iteration of the loop over response.content
ProcessBlock ==
    /\ isLoading
    /\ ~LoopDone(content, processed)
    /\ LET block == content[Len(processed) + 1]
       IN  IF block.type = "text"
           THEN /\ agentTextResponse' = block.text
                /\ processed' = Append(processed, [block |-> block, id |-> nextId,
                                                    now |-> clock, action |-> null])
                /\ UNCHANGED <<updatedState, actionsTaken, clock, nextId>>
           ELSE \E now \in (IF ReadsClock(block.name) THEN Now(clock) ELSE {clock}) :
                  LET id     == uuidv4(nextId)
                      result == processToolCall(block.name, block.input, updatedState, id, now)
                  IN  /\ updatedState' = result.state
                      /\ actionsTaken' = IF result.action # null
                                         THEN Append(actionsTaken, result.action)
                                         ELSE actionsTaken
                      /\ processed' = Append(processed, [block |-> block, id |-> id,
                                                          now |-> now, action |-> result.action])
                      /\ clock' = now
                      /\ nextId' = IF block.name = "add_task" THEN nextId + 1 ELSE nextId
                      /\ UNCHANGED agentTextResponse
    /\ UNCHANGED <<state, isLoading, currentState, content, toolCalls, directActions, call>>

\* a message that prefers the summaries to the text of the reply
AgentMessageSummariesFirst(text, summaries) ==
    IF Len(summaries) > 0 THEN join(summaries, <<". ">>) \o <<".">>
    ELSE IF Falsy(text) THEN <<"Done!">> ELSE text

\* the message of the store the route returns
AgentMessage(text, summaries) ==
    LET t == IF Falsy(text) /\ Len(summaries) > 0
             THEN join(summaries, <<". ">>) \o <<".">>
             ELSE text
    IN  IF Falsy(t) THEN <<"Done!">> ELSE t

\* a result that keeps the message an action wrote into the store
callAnthropicAPIResultKeepsMessage(st, text, summaries) ==
    IF st.agentMessage # undefined /\ Falsy(text) /\ Len(summaries) = 0
    THEN st
    ELSE [st EXCEPT !.agentMessage = AgentMessage(text, summaries)]

\* return {...updatedState, agentMessage: agentTextResponse || 'Done!'}
callAnthropicAPIResult(st, text, summaries) ==
    [st EXCEPT !.agentMessage = AgentMessage(text, summaries)]

\* the route returns {success: true, state} and sendMessage stores it
Respond ==
    /\ isLoading
    /\ LoopDone(content, processed)
    /\ state' = callAnthropicAPIResult(updatedState, agentTextResponse, actionsTaken)
    /\ isLoading' = FALSE
    /\ currentState' = createInitialState
    /\ updatedState' = createInitialState
    /\ actionsTaken' = <<>>
    /\ agentTextResponse' = <<>>
    /\ processed' = <<>>
    /\ content' = <<>>
    /\ UNCHANGED <<clock, nextId, toolCalls, directActions, call>>

\* the errors the route answers with, or fetch throws
ErrorMessages == {<<"Something went wrong">>}

\* a catch that stores the state the failure response carries, which is null
catchStoresResponseState(prev, errorMessage) ==
    [createInitialState EXCEPT !.agentMessage = <<"\\u26A0\\uFE0F ">> \o errorMessage]

\* sendMessage's catch: setState((prev) => ({...prev, agentMessage: warning sign + errorMessage}))
catch(prev, errorMessage) ==
    [prev EXCEPT !.agentMessage = <<"\\u26A0\\uFE0F ">> \o errorMessage]

\* the call of the reasoning service throws (network, rate limit, API error),
\* before any block of a reply is handled: the route answers
\* {success: false, state: null, error}, and sendMessage's catch keeps the
\* client's store and shows the error
Fail ==
    /\ isLoading
    /\ processed = <<>>
    /\ \E errorMessage \in ErrorMessages : state' = catch(state, errorMessage)
    /\ isLoading' = FALSE
    /\ currentState' = createInitialState
    /\ updatedState' = createInitialState
    /\ actionsTaken' = <<>>
    /\ agentTextResponse' = <<>>
    /\ processed' = <<>>
    /\ content' = <<>>
    /\ UNCHANGED <<clock, nextId, toolCalls, directActions, call>>

\* const filteredTasks = filterTasks(state.tasks, state.filter)
filteredTasks == filterTasks(state.tasks, state.filter)

\* TaskItem: the number shown next to the item TaskList maps at index (from 0)
TaskItemNumber(index) == index + 1

\* the ids of the items the list shows
Rendered == {filterTasks(state.tasks, state.filter)[i].id :
                i \in DOMAIN filterTasks(state.tasks, state.filter)}

handleComplete ==
    /\ directActions < MaxDirect
    /\ \E taskId \in Rendered, now \in Now(clock) :
          LET task == find(state.tasks, {i \in DOMAIN state.tasks : state.tasks[i].id = taskId})
          IN  IF task = notFound
              THEN UNCHANGED <<state, clock>>
              ELSE IF task[1].completed
              THEN /\ state' = [uncompleteTask(state, taskId) EXCEPT !.agentMessage =
                                  <<"Marked \"">> \o task[1].title \o <<"\" as active">>]
                   /\ UNCHANGED clock
              ELSE /\ state' = [completeTask(state, taskId, now) EXCEPT !.agentMessage =
                                  <<"Completed \"">> \o task[1].title \o <<"\" \\u2713">>]
                   /\ clock' = now
    /\ directActions' = directActions + 1
    /\ UNCHANGED <<isLoading, routeVars, nextId, toolCalls, call>>

handleDelete ==
    /\ directActions < MaxDirect
    /\ \E taskId \in Rendered :
          LET task == find(state.tasks, {i \in DOMAIN state.tasks : state.tasks[i].id = taskId})
          IN  IF task = notFound
              THEN UNCHANGED state
              ELSE state' = [deleteTask(state, taskId) EXCEPT !.agentMessage =
                                <<"Deleted \"">> \o task[1].title \o <<"\"">>]
    /\ directActions' = directActions + 1
    /\ UNCHANGED <<isLoading, routeVars, clock, nextId, toolCalls, call>>

\* the values of the filter pills and of "Clear filter"
PillFilters == {undefined, s_priority_high, s_completed_false, s_completed_true}

handleFilterChange ==
    /\ directActions < MaxDirect
    /\ \E filter \in PillFilters :
          state' = [state EXCEPT
                      !.filter = filter,
                      !.agentMessage = IF Falsy(filter) THEN <<"Showing all tasks">>
                                       ELSE <<"Filtering: ">> \o getFilterDescription(filter)]
    /\ directActions' = directActions + 1
    /\ UNCHANGED <<isLoading, routeVars, clock, nextId, toolCalls, call>>

Next ==
    \/ sendMessage(ClientBlocks, MaxClientBlocks)
    \/ ProcessBlock
    \/ Respond
    \/ Fail
    \/ handleComplete
    \/ handleDelete
    \/ handleFilterChange

Spec == Init /\ [][Next]_vars

\* the route alone: replies applied to the empty store or the demo store
NextRoute ==
    \/ sendMessage(Blocks, MaxBlocks)
    \/ ProcessBlock
    \/ Respond
    \/ Fail

SpecRoute == Init /\ [][NextRoute]_vars

-----------------------------------------------------------------------------
(* findTaskByIdentifier applied to task lists built by createTask and addTask *)

t_Buy_milk == <<"B","u","y"," ","m","i","l","k">>
t_2 == <<"2">>
t_Top_40 == <<"T","o","p"," ","4","0">>
t_Last_call == <<"L","a","s","t"," ","c","a","l","l">>

ResolveTitles == {t_Buy_milk, t_2, t_Top_40, t_Last_call}

Identifiers ==
    {<<"1">>, <<"2">>, <<" ","2"," ">>, <<"3">>, <<"0">>, <<"4">>, <<"5">>, <<"0","2">>,
     s_last, <<"L","A","S","T"," ","T","A","S","K">>, s_first, s_first \o <<" ">> \o s_task,
     <<"M","I","L","K">>, <<"c","a","l","l">>, <<"d","o","g">>,
     <<"1","s","t">>, <<"2"," ","e","g","g","s">>,
     <<>>, <<" "," ">>}

\* the lists addTask builds from the titles, the first item created at DemoNow
RECURSIVE TaskListsOf(_, _)
TaskListsOf(titles, n) ==
    IF n = 0 THEN {<<>>}
    ELSE LET shorter == TaskListsOf(titles, n - 1)
         IN  shorter \cup
             {addTask([tasks |-> list], createTask(title, s_medium, <<>>, n, DemoNow + n)).tasks :
                 list \in {l \in shorter : Len(l) = n - 1}, title \in titles}

InitResolve ==
    /\ state \in {[createInitialState EXCEPT !.tasks = list] :
                    list \in TaskListsOf(ResolveTitles, MaxTasks)}
    /\ isLoading = FALSE
    /\ RouteIdle
    /\ clock = DemoNow + MaxTasks
    /\ nextId = Len(state.tasks) + 1
    /\ toolCalls = 0
    /\ directActions = 0
    /\ call = NoCall

Resolve ==
    /\ call = NoCall
    /\ \E identifier \in Identifiers :
          call' = [NoCall EXCEPT !.fn = "findTaskByIdentifier",
                                 !.identifier = identifier,
                                 !.result = findTaskByIdentifier(state.tasks, identifier)]
    /\ UNCHANGED <<state, isLoading, routeVars, clock, nextId, toolCalls, directActions>>

NextResolve == Resolve

SpecResolve == InitResolve /\ [][NextResolve]_vars

-----------------------------------------------------------------------------
(* filterTasks applied to the stores the route produces *)

FilterStrings ==
    {undefined, s_all, s_priority_high, s_completed_true, s_completed_false, s_active,
     s_priority \o <<":">> \o <<"u","r","g","e","n","t">>,
     s_completed \o <<":">> \o <<"m","a","y","b","e">>,
     s_category \o <<":">> \o <<"W","o","r","k">>,
     s_active \o <<":">> \o <<"x">>,
     <<"b","o","g","u","s",":","x">>}

FilterTypes == {s_all, s_active, s_completed, s_priority, s_category, <<"b","o","g","u","s">>}

FilterValues ==
    {undefined, s_high, <<"H","i","g","h">>, <<"u","r","g","e","n","t">>, s_work,
     s_true, s_false, <<>>}

\* the items differ in priority, category and completion
FilterItems(id) ==
    {IF done THEN completeTask([tasks |-> <<task>>], id, DemoNow + id).tasks[1] ELSE task :
        task \in {createTask(t_Buy_milk, priority, category, id, DemoNow) :
                    priority \in {s_high, s_medium}, category \in {<<>>, s_work}},
        done \in BOOLEAN}

RECURSIVE FilterListsOf(_)
FilterListsOf(n) ==
    IF n = 0 THEN {<<>>}
    ELSE LET shorter == FilterListsOf(n - 1)
         IN  shorter \cup
             {addTask([tasks |-> list], task).tasks :
                 list \in {l \in shorter : Len(l) = n - 1}, task \in FilterItems(n)}

InitFilter ==
    /\ state \in {[createInitialState EXCEPT !.tasks = list, !.filter = filter] :
                    list \in FilterListsOf(MaxTasks), filter \in {undefined, s_priority_high}}
    /\ isLoading = FALSE
    /\ RouteIdle
    /\ clock = DemoNow + MaxTasks
    /\ nextId = Len(state.tasks) + 1
    /\ toolCalls = 0
    /\ directActions = 0
    /\ call = NoCall

\* TaskAgent renders filterTasks(state.tasks, state.filter)
ApplyFilter ==
    /\ call = NoCall
    /\ \E filter \in FilterStrings :
          call' = [NoCall EXCEPT !.fn = "filterTasks",
                                 !.filter = filter,
                                 !.result = filterTasks(state.tasks, filter)]
    /\ UNCHANGED <<state, isLoading, routeVars, clock, nextId, toolCalls, directActions>>

\* the same for a filter the route builds with createFilter
ApplyCreatedFilter ==
    /\ call = NoCall
    /\ \E filterType \in FilterTypes, filterValue \in FilterValues :
          LET filter == createFilter(filterType, filterValue)
          IN  call' = [NoCall EXCEPT !.fn = "createFilter",
                                     !.filterType = filterType,
                                     !.filterValue = filterValue,
                                     !.filter = filter,
                                     !.result = filterTasks(state.tasks, filter)]
    /\ UNCHANGED <<state, isLoading, routeVars, clock, nextId, toolCalls, directActions>>

\* the route handles a filter_tasks call on the store
SetFilter ==
    /\ call = NoCall
    /\ \E filterType \in FilterTypes, filterValue \in FilterValues :
          LET result == processToolCall("filter_tasks", FilterInput(filterType, filterValue),
                                        state, nextId, clock)
          IN  /\ state' = result.state
              /\ call' = [NoCall EXCEPT !.fn = "filter_tasks",
                                         !.filterType = filterType,
                                         !.filterValue = filterValue,
                                         !.filter = result.state.filter,
                                         !.result = filterTasks(result.state.tasks,
                                                                result.state.filter),
                                         !.action = result.action]
    /\ UNCHANGED <<isLoading, routeVars, clock, nextId, toolCalls, directActions>>

\* the priorities an add_task call may carry: none, the empty string, the
\* three of the tool's schema, and one that is not in the schema
AddPriorities == {undefined, <<>>, s_low, s_medium, s_high, <<"u","r","g","e","n","t">>}

\* the route's case 'add_task' on the store
AddTask ==
    /\ call = NoCall
    /\ \E priority \in AddPriorities, now \in Now(clock) :
          LET result == addTaskCall(AddInput(t_buy_milk, priority), state, uuidv4(nextId), now)
          IN  /\ state' = result.state
              /\ clock' = now
              /\ call' = [NoCall EXCEPT !.fn = "add_task",
                                         !.priority = priority,
                                         !.result = filterTasks(result.state.tasks,
                                                                result.state.filter),
                                         !.action = result.action]
    /\ nextId' = nextId + 1
    /\ UNCHANGED <<isLoading, routeVars, toolCalls, directActions>>

NextFilter ==
    \/ ApplyFilter
    \/ ApplyCreatedFilter
    \/ SetFilter
    \/ AddTask

SpecFilter == InitFilter /\ [][NextFilter]_vars

-----------------------------------------------------------------------------
(* Properties *)

\* every store of the system: the client's, the request's snapshot, the route's
Stores == {state, currentState, updatedState}

Ids(list) == {list[i].id : i \in DOMAIN list}

\* the step handles one block of the reply
BlockStep == isLoading /\ Len(processed') = Len(processed) + 1

\* the block that step handles
ThisBlock == content[Len(processed) + 1]

\* C1: in every reachable store, an item has a completedAt exactly when it is
\* completed.
C1_CompletedAtIffCompleted ==
    \A st \in Stores : \A i \in DOMAIN st.tasks :
        (st.tasks[i].completedAt # undefinedTime) <=> st.tasks[i].completed

\* the client holds the demo store after a reply completed its first item and
\* the user unchecked its third
C1_Witness ==
    /\ ~isLoading
    /\ Len(state.tasks) = 3
    /\ state.tasks[1].id = 1 /\ state.tasks[1].completed
    /\ state.tasks[1].completedAt >= DemoNow
    /\ state.tasks[3].id = 3 /\ ~state.tasks[3].completed
    /\ state.tasks[3].completedAt = undefinedTime

\* the left fold of the executor over the handled blocks
RECURSIVE ApplyBatch(_, _)
ApplyBatch(store, log) ==
    IF log = <<>> THEN store
    ELSE LET e    == log[Len(log)]
             prev == ApplyBatch(store, SubSeq(log, 1, Len(log) - 1))
         IN  IF e.block.type = "tool_use"
             THEN processToolCall(e.block.name, e.block.input, prev, e.id, e.now).state
             ELSE prev

C2_Example ==
    <<ToolUse("add_task", AddInput(t_buy_milk, undefined)),
      ToolUse("add_task", AddInput(t_walk_dog, s_high)),
      ToolUse("complete_task", TaskInput(<<"1">>))>>

C2_Threaded ==
    isLoading =>
        /\ Len(processed) <= Len(content)
        /\ \A i \in DOMAIN processed : processed[i].block = content[i]
        /\ updatedState = ApplyBatch(currentState, processed)
        /\ (/\ currentState.tasks = <<>>
            /\ content = C2_Example
            /\ Len(processed) = 3)
           => /\ Len(updatedState.tasks) = 2
              /\ updatedState.tasks[1].title = t_buy_milk
              /\ updatedState.tasks[1].completed
              /\ ~updatedState.tasks[2].completed

\* the message of the answer the route gives to the request in flight
Answer == AgentMessage(agentTextResponse, actionsTaken)

\* C2: the route applies the blocks of a reply in order, each to the store the
\* previous one produced, and answers only when all of them are applied: the
\* store it returns is the left fold of the executor over the whole reply,
\* whatever the outcome of each block.
C2_BatchIsLeftFold ==
    /\ []C2_Threaded
    /\ [][(isLoading /\ ~isLoading' /\ state'.agentMessage = Answer) =>
            /\ Len(processed) = Len(content)
            /\ state'.tasks = ApplyBatch(currentState, processed).tasks
            /\ state'.filter = ApplyBatch(currentState, processed).filter]_vars

\* a tool call that found no task was followed by one that changed the store
C2_Witness ==
    /\ isLoading
    /\ Len(processed) = Len(content)
    /\ \E i \in 1..(Len(processed) - 1) :
          /\ processed[i].block.name \in {"complete_task", "uncomplete_task", "delete_task"}
          /\ findTaskByIdentifier(ApplyBatch(currentState, SubSeq(processed, 1, i - 1)).tasks,
                                  processed[i].block.input.taskIdentifier) = notFound
          /\ processed[i + 1].action # null
          /\ processed[i + 1].block.name \in {"add_task", "delete_task"}

\* the identifier, trimmed and lower-cased
Normalized(identifier) == trim(toLowerCase(identifier))

\* s is a decimal numeral: one or more digits and nothing else
IsNumeral(s) == s # <<>> /\ \A i \in DOMAIN s : IsDigit(s[i])

Resolved == call.fn = "findTaskByIdentifier"

\* C3: an identifier that, trimmed and lower-cased, is the numeral of a
\* position n of the list resolves to the item at that position, whatever the
\* titles are.
C3_PositionWins ==
    Resolved =>
        \A n \in 1..Len(state.tasks) :
            (IsNumeral(Normalized(call.identifier)) /\ Decimal(Normalized(call.identifier)) = n)
                => call.result = <<state.tasks[n]>>

\* "2" resolved on a list whose first item is titled "2" and whose second is not
C3_Witness ==
    /\ Resolved
    /\ call.identifier = <<" ", "2", " ">>
    /\ Len(state.tasks) >= 2
    /\ state.tasks[1].title = t_2
    /\ state.tasks[2].title = t_Buy_milk
    /\ call.result = <<state.tasks[2]>>

\* the identifier is the numeral of 0 or of a number above the length of the list
OutOfRange ==
    /\ Resolved
    /\ IsNumeral(Normalized(call.identifier))
    /\ \/ Decimal(Normalized(call.identifier)) = 0
       \/ Decimal(Normalized(call.identifier)) > Len(state.tasks)

\* C4 as claimed: an identifier that is 0 or a number above the length of the
\* list resolves to no item.
C4_OutOfRangeIsNotFound == OutOfRange => call.result = notFound

\* the positions whose lower-cased title contains the normalized identifier
TitleHits ==
    {i \in DOMAIN state.tasks :
        includes(toLowerCase(state.tasks[i].title), Normalized(call.identifier))}

\* C4 as amended: an identifier that is 0 or a number above the length of the
\* list resolves to the first item whose title contains it, and to no item
\* only when no title contains it.
C4_OutOfRangeFallsBackToTitle ==
    OutOfRange =>
        IF TitleHits = {}
        THEN call.result = notFound
        ELSE call.result = <<state.tasks[CHOOSE i \in TitleHits : \A j \in TitleHits : i <= j]>>

\* "4" on a list of three items none of whose titles contains a 4
C4_Witness ==
    /\ OutOfRange
    /\ call.identifier = <<"4">>
    /\ Len(state.tasks) = 3
    /\ TitleHits = {}
    /\ call.result = notFound

\* C5: no store holds an item whose title is empty (an Add whose title is
\* blank is refused and leaves the store as it was).
C5_NoEmptyTitle ==
    \A st \in Stores : \A i \in DOMAIN st.tasks : st.tasks[i].title # <<>>

\* the step handles a complete, uncomplete or delete whose identifier resolves
\* to no task
MissStep ==
    /\ BlockStep
    /\ ThisBlock.type = "tool_use"
    /\ ThisBlock.name \in {"complete_task", "uncomplete_task", "delete_task"}
    /\ findTaskByIdentifier(updatedState.tasks, ThisBlock.input.taskIdentifier) = notFound

\* C6: a complete, uncomplete or delete whose identifier resolves to no task
\* keeps the items and the filter, yields no summary, sets the message to
\* Couldn't find a task matching "<identifier>", and the loop goes on.
C6_MissKeepsStore ==
    [][MissStep =>
        /\ updatedState'.tasks = updatedState.tasks
        /\ updatedState'.filter = updatedState.filter
        /\ updatedState'.agentMessage =
              <<"Couldn't find a task matching \"">> \o ThisBlock.input.taskIdentifier
                  \o <<"\"">>
        /\ actionsTaken' = actionsTaken
        /\ processed'[Len(processed')].action = null
        /\ isLoading']_vars

\* Delete "2" was just applied to a store of one item
C6_Witness ==
    /\ isLoading
    /\ processed # <<>>
    /\ processed[Len(processed)].block = ToolUse("delete_task", TaskInput(<<"2">>))
    /\ Len(updatedState.tasks) = 1
    /\ updatedState.agentMessage = <<"Couldn't find a task matching \"", "2", "\"">>
    /\ processed[Len(processed)].action = null

Filtered == call.fn \in {"filterTasks", "createFilter"}

\* the filter has a key that is none of the four, or a value its key does not allow
Malformed(filter) ==
    /\ ~Falsy(filter)
    /\ filter # s_all
    /\ LET parts == split(filter, ":")
           key   == parts[1]
           value == IF Len(parts) >= 2 THEN parts[2] ELSE undefined
       IN  \/ key \notin {s_priority, s_completed, s_active, s_category}
           \/ key = s_priority /\ value \notin {s_low, s_medium, s_high}
           \/ key = s_completed /\ value \notin {s_true, s_false}

\* C7: a malformed filter (unknown key, or a value outside the key's set) never
\* hides all items of a store that has items.
C7_MalformedFilterShowsItems ==
    (Filtered /\ state.tasks # <<>> /\ Malformed(call.filter)) => call.result # <<>>

\* every id a store holds has been issued by the generator
Issued == 1..(nextId - 1)

AllIds == UNION {Ids(st.tasks) : st \in Stores}

C8_Unique ==
    \A st \in Stores :
        /\ \A i, j \in DOMAIN st.tasks : st.tasks[i].id = st.tasks[j].id => i = j
        /\ Ids(st.tasks) \subseteq Issued

\* C8: no two items of a store share an id, and an item that enters the system
\* gets an id that no item has had before, so not the id of a deleted item.
C8_IdsUniqueNeverReused ==
    /\ []C8_Unique
    /\ [][\A id \in AllIds' \ AllIds : id \notin Issued]_vars

\* the first demo item was deleted and an item was added after that
C8_Witness ==
    /\ ~isLoading
    /\ Len(state.tasks) = 3
    /\ Ids(state.tasks) = {2, 3, 4}
    /\ state.tasks[3].id = 4

\* the ids of the items of list whose id is in keep, in the order of list
IdsAmong(list, keep) ==
    LET kept == SelectSeq(list, LAMBDA task : task.id \in keep)
    IN  [i \in DOMAIN kept |-> kept[i].id]

\* the items that are in both lists are in the same order in both
OrderKept(old, new) == IdsAmong(old, Ids(new)) = IdsAmong(new, Ids(old))

\* C9: no step changes the relative order of two items that stay in a store,
\* and Add puts the new item after all the others.
C9_InsertionOrderKept ==
    [][/\ OrderKept(state.tasks, state'.tasks)
       /\ OrderKept(updatedState.tasks, updatedState'.tasks)
       /\ (BlockStep /\ ThisBlock.type = "tool_use" /\ ThisBlock.name = "add_task")
            => /\ Len(updatedState'.tasks) = Len(updatedState.tasks) + 1
               /\ SubSeq(updatedState'.tasks, 1, Len(updatedState.tasks)) = updatedState.tasks
               /\ updatedState'.tasks[Len(updatedState'.tasks)].id \notin Ids(updatedState.tasks)
      ]_vars

\* the second demo item was deleted by hand and an item was added by a reply
C9_Witness ==
    /\ ~isLoading
    /\ Len(state.tasks) = 3
    /\ state.tasks[1].id = 1
    /\ state.tasks[2].id = 3
    /\ state.tasks[3].id = 4
    /\ state.tasks[3].title = t_buy_milk

\* the step handles a complete of a completed task or an uncomplete of an active one
RedundantStep ==
    /\ BlockStep
    /\ ThisBlock.type = "tool_use"
    /\ LET task == findTaskByIdentifier(updatedState.tasks, ThisBlock.input.taskIdentifier)
       IN  /\ ThisBlock.name \in {"complete_task", "uncomplete_task"}
           /\ task # notFound
           /\ (ThisBlock.name = "complete_task") = task[1].completed

\* C10: completing a completed item or uncompleting an active one keeps the
\* items (their completedAt too) and the filter, yields no summary, and sets
\* the message to "<title>" is already complete / "<title>" is already active.
C10_RedundantChangeIsNoOp ==
    [][RedundantStep =>
        LET task == findTaskByIdentifier(updatedState.tasks, ThisBlock.input.taskIdentifier)[1]
        IN  /\ updatedState'.tasks = updatedState.tasks
            /\ updatedState'.filter = updatedState.filter
            /\ actionsTaken' = actionsTaken
            /\ processed'[Len(processed')].action = null
            /\ updatedState'.agentMessage =
                  <<"\"">> \o task.title \o
                  (IF ThisBlock.name = "complete_task"
                   THEN <<"\" is already complete">> ELSE <<"\" is already active">>)]_vars

\* Complete "1" was applied a second time, later than the first, and the item
\* kept the first completedAt
C10_Witness ==
    /\ isLoading
    /\ Len(processed) >= 2
    /\ LET e == processed[Len(processed)]
       IN  /\ e.block = ToolUse("complete_task", TaskInput(<<"1">>))
           /\ e.action = null
           /\ updatedState.tasks # <<>>
           /\ updatedState.tasks[1].completed
           /\ updatedState.tasks[1].completedAt < e.now
           /\ updatedState.agentMessage =
                 <<"\"">> \o updatedState.tasks[1].title \o <<"\" is already complete">>

\* the store the route held before it handled block i of the reply
StoreBefore(i) == ApplyBatch(currentState, SubSeq(processed, 1, i - 1))

\* block i of the reply was a tool call of that name that yielded a summary
Succeeded(i, toolName) ==
    /\ i \in DOMAIN processed
    /\ processed[i].block.type = "tool_use"
    /\ processed[i].block.name = toolName
    /\ processed[i].action # null

\* the item block i of the reply resolved to
TargetOf(i) ==
    findTaskByIdentifier(StoreBefore(i).tasks, processed[i].block.input.taskIdentifier)

\* the last two blocks handled were a Complete and an Uncomplete of the same
\* item, both successful
RoundTrip ==
    /\ isLoading
    /\ Len(processed) >= 2
    /\ Succeeded(Len(processed) - 1, "complete_task")
    /\ Succeeded(Len(processed), "uncomplete_task")
    /\ TargetOf(Len(processed) - 1) # notFound
    /\ TargetOf(Len(processed)) # notFound
    /\ TargetOf(Len(processed) - 1)[1].id = TargetOf(Len(processed))[1].id

\* C11: after a successful Complete followed by a successful Uncomplete of the
\* same item, the item is not completed, has no completedAt and has the id,
\* title, priority, category and createdAt it had before the Complete, and
\* every other item is what and where it was before the Complete.
C11_CompleteUncompleteRoundTrip ==
    RoundTrip =>
        LET before == StoreBefore(Len(processed) - 1).tasks
            target == TargetOf(Len(processed))[1].id
        IN  /\ Len(updatedState.tasks) = Len(before)
            /\ \A i \in DOMAIN before :
                  IF before[i].id = target
                  THEN /\ ~updatedState.tasks[i].completed
                       /\ updatedState.tasks[i].completedAt = undefinedTime
                       /\ updatedState.tasks[i].id = before[i].id
                       /\ updatedState.tasks[i].title = before[i].title
                       /\ updatedState.tasks[i].priority = before[i].priority
                       /\ updatedState.tasks[i].category = before[i].category
                       /\ updatedState.tasks[i].createdAt = before[i].createdAt
                  ELSE updatedState.tasks[i] = before[i]

\* the first demo item was completed, later than it was created, and then
\* uncompleted, the third demo item staying completed
C11_Witness ==
    /\ RoundTrip
    /\ Len(updatedState.tasks) = 3
    /\ TargetOf(Len(processed))[1].id = 1
    /\ TargetOf(Len(processed))[1].completedAt > updatedState.tasks[1].createdAt
    /\ updatedState.tasks[1].createdAt = DemoNow - 1
    /\ updatedState.tasks[3].completed

\* the step handles a complete of an active task or an uncomplete of a
\* completed one
ToggleStep ==
    /\ BlockStep
    /\ ThisBlock.type = "tool_use"
    /\ LET task == findTaskByIdentifier(updatedState.tasks, ThisBlock.input.taskIdentifier)
       IN  /\ ThisBlock.name \in {"complete_task", "uncomplete_task"}
           /\ task # notFound
           /\ (ThisBlock.name = "complete_task") = ~task[1].completed

\* C12: a successful Complete or Uncomplete keeps the number and order of the
\* items, every item but the resolved one, the filter, and the resolved item's
\* id, title, priority, category and createdAt; it sets completed and
\* completedAt of the resolved item, and its summary is Completed "<title>" or
\* Marked "<title>" as active.
C12_ToggleChangesOnlyCompletion ==
    [][ToggleStep =>
        LET task     == findTaskByIdentifier(updatedState.tasks,
                                             ThisBlock.input.taskIdentifier)[1]
            complete == ThisBlock.name = "complete_task"
            entry    == processed'[Len(processed')]
            summary  == IF complete
                        THEN <<"Completed \"">> \o task.title \o <<"\"">>
                        ELSE <<"Marked \"">> \o task.title \o <<"\" as active">>
        IN  /\ Len(updatedState'.tasks) = Len(updatedState.tasks)
            /\ updatedState'.filter = updatedState.filter
            /\ \A i \in DOMAIN updatedState.tasks :
                  IF updatedState.tasks[i].id = task.id
                  THEN updatedState'.tasks[i] =
                          [updatedState.tasks[i] EXCEPT
                              !.completed = complete,
                              !.completedAt = IF complete THEN entry.now ELSE undefinedTime]
                  ELSE updatedState'.tasks[i] = updatedState.tasks[i]
            /\ entry.action = summary
            /\ actionsTaken' = Append(actionsTaken, summary)]_vars

\* two items titled alike were added and the first was completed, after the
\* time it was created at; the second stayed active
C12_Witness ==
    /\ isLoading
    /\ Len(processed) = 3
    /\ processed[3].block = ToolUse("complete_task", TaskInput(<<"1">>))
    /\ processed[3].action = <<"Completed \"">> \o t_buy_milk \o <<"\"">>
    /\ Len(updatedState.tasks) = 2
    /\ updatedState.tasks[1].title = updatedState.tasks[2].title
    /\ updatedState.tasks[1].completed
    /\ updatedState.tasks[1].completedAt > updatedState.tasks[1].createdAt
    /\ ~updatedState.tasks[2].completed

\* the step handles a delete whose identifier resolves to a task
DeleteStep ==
    /\ BlockStep
    /\ ThisBlock.type = "tool_use"
    /\ ThisBlock.name = "delete_task"
    /\ findTaskByIdentifier(updatedState.tasks, ThisBlock.input.taskIdentifier) # notFound

\* C13: a successful Delete makes the store one item shorter, the id of the
\* resolved item no longer occurs, the other items are unchanged and in the
\* order they were in, the filter is unchanged, and the summary is
\* Deleted "<title>".
C13_DeleteRemovesExactlyOne ==
    [][DeleteStep =>
        LET task    == findTaskByIdentifier(updatedState.tasks,
                                            ThisBlock.input.taskIdentifier)[1]
            summary == <<"Deleted \"">> \o task.title \o <<"\"">>
        IN  /\ Len(updatedState'.tasks) = Len(updatedState.tasks) - 1
            /\ task.id \notin Ids(updatedState'.tasks)
            /\ updatedState'.tasks =
                  SelectSeq(updatedState.tasks, LAMBDA other : other # task)
            /\ updatedState'.filter = updatedState.filter
            /\ processed'[Len(processed')].action = summary
            /\ actionsTaken' = Append(actionsTaken, summary)]_vars

\* the first demo item was deleted while the filter priority:high was set
C13_Witness ==
    /\ isLoading
    /\ processed # <<>>
    /\ processed[Len(processed)].block = ToolUse("delete_task", TaskInput(<<"1">>))
    /\ processed[Len(processed)].action = <<"Deleted \"", "R","e","v","i","e","w"," ","P","R", "\"">>
    /\ Len(updatedState.tasks) = 2
    /\ updatedState.tasks[1].id = 2
    /\ updatedState.tasks[2].id = 3
    /\ updatedState.filter = s_priority_high

LastKeywords == {s_last, s_last \o <<" ">> \o s_task}

FirstKeywords == {s_first, s_first \o <<" ">> \o s_task}

\* C14: an identifier that, trimmed and lower-cased, is "last" or "last task"
\* resolves to the item at the final position, which is the item appended
\* last, and one that is "first" or "first task" to the item at the first
\* position; on the empty list both resolve to no item.
C14_KeywordsResolveToEnds ==
    Resolved =>
        /\ Normalized(call.identifier) \in LastKeywords =>
              IF state.tasks = <<>>
              THEN call.result = notFound
              ELSE /\ call.result = <<state.tasks[Len(state.tasks)]>>
                   /\ call.result[1].id = Len(state.tasks)
                   /\ \A i \in DOMAIN state.tasks :
                         call.result[1].createdAt >= state.tasks[i].createdAt
        /\ Normalized(call.identifier) \in FirstKeywords =>
              IF state.tasks = <<>>
              THEN call.result = notFound
              ELSE call.result = <<state.tasks[1]>>

\* "LAST TASK" resolved on a list of three items whose first is titled
\* "Last call": the third item is returned
C14_Witness ==
    /\ Resolved
    /\ call.identifier = <<"L","A","S","T"," ","T","A","S","K">>
    /\ Len(state.tasks) = 3
    /\ state.tasks[1].title = t_Last_call
    /\ state.tasks[3].title = t_Buy_milk
    /\ call.result = <<state.tasks[3]>>

\* the identifier is the numeral of a position of the list
InRangePosition ==
    /\ IsNumeral(Normalized(call.identifier))
    /\ Decimal(Normalized(call.identifier)) \in 1..Len(state.tasks)

\* C15: an identifier that is neither the numeral of a position of the list
\* nor a keyword resolves to the first item, in the order of the list, whose
\* lower-cased title contains the normalized identifier, and to no item when
\* no title contains it.
C15_OtherwiseFirstTitleMatch ==
    (/\ Resolved
     /\ ~InRangePosition
     /\ Normalized(call.identifier) \notin LastKeywords \cup FirstKeywords)
        => IF TitleHits = {}
           THEN call.result = notFound
           ELSE call.result =
                   <<state.tasks[CHOOSE i \in TitleHits : \A j \in TitleHits : i <= j]>>

\* the step ends the request in flight with an answer of the route (not with
\* an error)
AnswerStep ==
    /\ isLoading
    /\ ~isLoading'
    /\ state'.agentMessage \notin {<<"\\u26A0\\uFE0F ">> \o e : e \in ErrorMessages}

\* block i of the reply was an action that succeeded: an add or a filter, a
\* complete of an active task, an uncomplete of a completed one, or a delete
\* of a task that was found
SucceededAt(i) ==
    LET block == processed[i].block
        task  == findTaskByIdentifier(StoreBefore(i).tasks, block.input.taskIdentifier)
    IN  /\ block.type = "tool_use"
        /\ CASE block.name \in {"add_task", "filter_tasks"} -> TRUE
             [] block.name = "complete_task" -> task # notFound /\ ~task[1].completed
             [] block.name = "uncomplete_task" -> task # notFound /\ task[1].completed
             [] block.name = "delete_task" -> task # notFound
             [] OTHER -> FALSE

\* the summaries of the actions that succeeded, in the order of the reply
SuccessSummaries ==
    LET positions == SelectSeq([i \in 1..Len(processed) |-> i], LAMBDA i : SucceededAt(i))
    IN  [k \in DOMAIN positions |-> processed[positions[k]].action]

\* the summaries joined with ". ", with a final period
Joined(summaries) == join(summaries, <<". ">>) \o <<".">>

\* the text of the last text block of the reply, empty if it has none
LastText ==
    LET texts == SelectSeq(content, LAMBDA block : block.type = "text")
    IN  IF texts = <<>> THEN <<>> ELSE texts[Len(texts)].text

\* C16 as claimed: the message of an answer is the summaries of the actions
\* that succeeded, in order, joined with ". ", and the default acknowledgment
\* when no action yielded a summary.
C16_MessageIsJoinedSummaries ==
    [][AnswerStep =>
        state'.agentMessage = IF SuccessSummaries = <<>> THEN <<"Done!">>
                              ELSE Joined(SuccessSummaries)]_vars

\* C16 as amended: exactly the actions that succeeded yield a summary; when
\* the reply has no text, the message of the answer is those summaries, in
\* order, joined with ". " and ended with a period, or Done! when there is
\* none; when the reply has text, the message is the last text of the reply.
C16_MessageIsTextOrJoinedSummaries ==
    [][AnswerStep =>
        /\ \A i \in DOMAIN processed : SucceededAt(i) <=> processed[i].action # null
        /\ actionsTaken = SuccessSummaries
        /\ state'.agentMessage =
              IF LastText # <<>> THEN LastText
              ELSE IF SuccessSummaries = <<>> THEN <<"Done!">>
              ELSE Joined(SuccessSummaries)
        /\ (currentState.tasks = <<>> /\ content = C2_Example)
              => state'.agentMessage =
                    <<"Added \"">> \o t_buy_milk \o <<"\"", ". ", "Added \"">> \o t_walk_dog
                        \o <<"\"", ". ", "Completed \"">> \o t_buy_milk \o <<"\"", ".">>]_vars

\* the route is about to answer a reply of a miss, an add and a text: one
\* summary was collected and the message will be the text
C16_Witness ==
    /\ isLoading
    /\ LoopDone(content, processed)
    /\ Len(processed) = 3
    /\ processed[1].block = ToolUse("delete_task", TaskInput(<<"2">>))
    /\ actionsTaken = <<<<"Added \"">> \o t_buy_milk \o <<"\"">>>>
    /\ LastText = <<"On it.">>
    /\ Answer = <<"On it.">>

Created == call.fn = "createFilter"

\* the value is one the key of the filter allows
InDomain(filterType, filterValue) ==
    /\ filterValue # undefined
    /\ CASE filterType = s_priority -> filterValue \in {s_low, s_medium, s_high}
         [] filterType = s_completed -> filterValue \in {s_true, s_false}
         [] filterType = s_active -> TRUE
         [] filterType = s_category -> TRUE
         [] OTHER -> FALSE

\* C17: for a key among priority, completed, active and category and a value
\* the key allows, the filter createFilter builds selects the items that the
\* string "key:value" selects.
C17_CreatedFilterSelectsAsString ==
    (Created /\ InDomain(call.filterType, call.filterValue)) =>
        call.result = filterTasks(state.tasks,
                                  call.filterType \o <<":">> \o call.filterValue)

Applied == call.fn = "filterTasks"

\* the key and the value of a filter string
KeyOf(filter) == split(filter, ":")[1]

ValueOf(filter) ==
    IF Len(split(filter, ":")) >= 2 THEN split(filter, ":")[2] ELSE undefined

\* the filter has one of the four keys and a value the key allows
WellFormed(filter) ==
    /\ ~Falsy(filter)
    /\ filter # s_all
    /\ \/ KeyOf(filter) = s_active
       \/ InDomain(KeyOf(filter), ValueOf(filter))

\* what a well-formed filter asks of an item
Satisfies(task, filter) ==
    CASE KeyOf(filter) = s_priority -> task.priority = ValueOf(filter)
      [] KeyOf(filter) = s_completed -> task.completed = (ValueOf(filter) = s_true)
      [] KeyOf(filter) = s_active -> ~task.completed
      [] KeyOf(filter) = s_category ->
            toLowerCase(task.category) = toLowerCase(ValueOf(filter))

\* the items a filter string selects are the items that satisfy it, in the
\* order of the list; active with any value selects what completed:false does
C18_Selected ==
    (Applied /\ WellFormed(call.filter)) =>
        /\ call.result = SelectSeq(state.tasks, LAMBDA task : Satisfies(task, call.filter))
        /\ KeyOf(call.filter) = s_active =>
              call.result = filterTasks(state.tasks, s_completed_false)

\* C18: for a filter with one of the four keys and a value the key allows,
\* the visible items are the items that satisfy the predicate of the key, in
\* the order of the store, and filtering leaves the items of the store as
\* they are.
C18_FilterSelectsByPredicate ==
    /\ []C18_Selected
    /\ [][Applied' => state'.tasks = state.tasks]_vars

\* priority:high applied to items of priorities high, medium, high
C18_Witness ==
    /\ Applied
    /\ call.filter = s_priority_high
    /\ Len(state.tasks) = 3
    /\ state.tasks[1].priority = s_high
    /\ state.tasks[2].priority = s_medium
    /\ state.tasks[3].priority = s_high
    /\ call.result = <<state.tasks[1], state.tasks[3]>>

\* the filter is absent, is the literal all, or has a key that is none of the
\* four
ShowsAll(filter) ==
    \/ Falsy(filter)
    \/ filter = s_all
    \/ toLowerCase(KeyOf(filter)) \notin {s_priority, s_completed, s_active, s_category}

\* C19: an absent filter, the literal all and a filter whose key is not
\* recognized each yield all the items of the store, in the order of the store.
C19_NoFilterShowsAll ==
    (Applied /\ ShowsAll(call.filter)) => call.result = state.tasks

\* bogus:x applied to three items, the first of them completed
C19_Witness ==
    /\ Applied
    /\ call.filter = <<"b","o","g","u","s",":","x">>
    /\ Len(state.tasks) = 3
    /\ state.tasks[1].completed
    /\ ~state.tasks[2].completed
    /\ call.result = state.tasks

\* the step is the route's handling of a filter_tasks call
SetFilterStep == call = NoCall /\ call'.fn = "filter_tasks"

\* the filter built from the type and the value is none
ResolvesToNone(filterType, filterValue) ==
    \/ filterType = s_all
    \/ filterType \notin {s_all, s_active, s_completed, s_priority, s_category}
    \/ filterType \in {s_priority, s_category} /\ Falsy(filterValue)

\* C20: a filter_tasks call keeps the items of the store, sets the filter of
\* the store to createFilter(filterType, filterValue), which is none exactly
\* for the type all, an unknown type, and priority or category without a
\* value, and its summary is Showing all tasks when the filter is none and
\* Filtering by <filterType> otherwise.
C20_SetFilterReplacesFilter ==
    [][SetFilterStep =>
        /\ state'.tasks = state.tasks
        /\ state'.filter = createFilter(call'.filterType, call'.filterValue)
        /\ Falsy(state'.filter) <=> ResolvesToNone(call'.filterType, call'.filterValue)
        /\ call'.action = IF ResolvesToNone(call'.filterType, call'.filterValue)
                          THEN <<"Showing all tasks">>
                          ELSE <<"Filtering by ">> \o call'.filterType]_vars

\* priority without a value was set on a store of three items, not all of
\* high priority: the filter is none, all items show, and the summary is
\* Showing all tasks
C20_Witness ==
    /\ call.fn = "filter_tasks"
    /\ call.filterType = s_priority
    /\ call.filterValue = undefined
    /\ Len(state.tasks) = 3
    /\ state.filter = undefined
    /\ call.action = <<"Showing all tasks">>
    /\ call.result = state.tasks
    /\ filterTasks(state.tasks, s_priority_high) # state.tasks

\* the decimal numeral of a natural number
RECURSIVE ToNumeral(_)
ToNumeral(n) ==
    IF n < 10 THEN <<Digits[n + 1]>>
    ELSE ToNumeral(n \div 10) \o <<Digits[(n % 10) + 1]>>

\* C21: whatever the filter is, the number shown next to a visible item,
\* given as an identifier, resolves on the items of the store to that item.
C21_DisplayedNumberResolves ==
    \A k \in DOMAIN filteredTasks :
        findTaskByIdentifier(state.tasks, ToNumeral(TaskItemNumber(k - 1)))
            = <<filteredTasks[k]>>

\* C22: while a request started by sendMessage is in flight, neither the input
\* area nor an example command button starts a second one.
C22_OneRequestInFlight ==
    isLoading =>
        /\ ~handleSubmitPasses(isLoading)
        /\ ~exampleButtonEnabled(isLoading)
        /\ ~ENABLED sendMessage(ClientBlocks, MaxClientBlocks)

\* a request is in flight, one block of its reply is handled, the user has
\* deleted an item by hand, and blocks are left for a second request
C22_Witness ==
    /\ isLoading
    /\ Len(processed) = 1
    /\ directActions = 1
    /\ toolCalls < MaxClientBlocks
    /\ Len(state.tasks) < Len(currentState.tasks)

KnownTools == {"add_task", "complete_task", "uncomplete_task", "delete_task", "filter_tasks"}

\* the step handles a tool call whose name is none of the five
UnknownToolStep ==
    /\ BlockStep
    /\ ThisBlock.type = "tool_use"
    /\ ThisBlock.name \notin KnownTools

\* C23: a tool call of an unknown kind leaves the store as it is (items,
\* filter and message), yields no summary, and the loop goes on with the
\* blocks that follow.
C23_UnknownToolKeepsStore ==
    [][UnknownToolStep =>
        /\ updatedState' = updatedState
        /\ actionsTaken' = actionsTaken
        /\ processed'[Len(processed')].action = null
        /\ agentTextResponse' = agentTextResponse
        /\ isLoading'
        /\ content' = content]_vars

\* a miss, then a call of an unknown kind that kept the message of the miss,
\* then an add that succeeded
C23_Witness ==
    /\ isLoading
    /\ Len(processed) = 3
    /\ processed[1].block = ToolUse("delete_task", TaskInput(<<"2">>))
    /\ processed[2].block = ToolUse("list_tasks", NoInput)
    /\ processed[2].action = null
    /\ processed[3].block.name = "add_task"
    /\ processed[3].action # null
    /\ updatedState.agentMessage = <<"Couldn't find a task matching \"", "2", "\"">>
    /\ Len(updatedState.tasks) = 1

Priorities == {s_low, s_medium, s_high}

\* C24: every item of every store has a priority among low, medium and high,
\* and an add_task call without a priority appends an item of priority medium
\* that is not completed and has no completedAt.
C24_PriorityInDomain ==
    /\ \A st \in Stores : \A i \in DOMAIN st.tasks : st.tasks[i].priority \in Priorities
    /\ (call.fn = "add_task" /\ call.priority = undefined) =>
          LET added == state.tasks[Len(state.tasks)]
          IN  /\ added.priority = s_medium
              /\ ~added.completed
              /\ added.completedAt = undefinedTime

\* the item of that id in a list of items that holds it
ItemOf(list, id) == list[CHOOSE i \in DOMAIN list : list[i].id = id]

\* C25: what the user did by hand while the request was in flight is in the
\* store after the answer is applied: an item deleted by hand is not back, a
\* filter set by hand is kept by a batch that sets no filter, and an item
\* toggled by hand that the batch did not touch keeps the toggle.
C25_DirectActionsSurviveAnswer ==
    [][AnswerStep =>
        /\ \A id \in Ids(currentState.tasks) \ Ids(state.tasks) :
              id \notin Ids(state'.tasks)
        /\ (/\ state.filter # currentState.filter
            /\ \A i \in DOMAIN content : content[i].name # "filter_tasks")
              => state'.filter = state.filter
        /\ \A id \in Ids(currentState.tasks) \cap Ids(state.tasks) \cap Ids(updatedState.tasks) :
              (/\ ItemOf(state.tasks, id).completed # ItemOf(currentState.tasks, id).completed
               /\ ItemOf(updatedState.tasks, id) = ItemOf(currentState.tasks, id))
                 => ItemOf(state'.tasks, id).completed = ItemOf(state.tasks, id).completed
      ]_vars

\* the normalized identifier begins with a digit and is no numeral
DigitsThenText ==
    /\ Resolved
    /\ Normalized(call.identifier) # <<>>
    /\ IsDigit(Normalized(call.identifier)[1])
    /\ ~IsNumeral(Normalized(call.identifier))

\* C26: an identifier that begins with digits and goes on with other text is
\* not resolved by position: it resolves as a title does, to the first item
\* whose title contains it or to no item.
C26_DigitsThenTextIsNoPosition ==
    DigitsThenText =>
        /\ TitleHits = {} => call.result = notFound
        /\ TitleHits # {} =>
              call.result = <<state.tasks[CHOOSE i \in TitleHits : \A j \in TitleHits : i <= j]>>

\* the message is one an action writes into the store when it finds no task
\* or finds it in the state asked for
MissMessage(message) ==
    \/ message[1] = "Couldn't find a task matching \""
    \/ message[Len(message)] \in {"\" is already complete", "\" is already active"}

\* C27: the message of the store the route returns is the text of the reply
\* when that is not empty, else the collected summaries joined, else Done!;
\* so it is never the message a miss or a redundant action wrote into the
\* store, and the items and the filter are those the loop produced.
C27_ReturnedMessageOverwritesMiss ==
    [][AnswerStep =>
        /\ state'.agentMessage =
              IF agentTextResponse # <<>> THEN agentTextResponse
              ELSE IF actionsTaken # <<>> THEN Joined(actionsTaken)
              ELSE <<"Done!">>
        /\ ~MissMessage(state'.agentMessage)
        /\ state'.tasks = updatedState.tasks
        /\ state'.filter = updatedState.filter]_vars

\* the only block of the reply was an uncomplete of the first demo item, which
\* is active: the store holds the already-active message, and the route is
\* about to answer Done!
C27_Witness ==
    /\ isLoading
    /\ LoopDone(content, processed)
    /\ Len(processed) = 1
    /\ processed[1].block = ToolUse("uncomplete_task", TaskInput(<<"1">>))
    /\ Len(updatedState.tasks) = 3
    /\ MissMessage(updatedState.agentMessage)
    /\ actionsTaken = <<>>
    /\ callAnthropicAPIResult(updatedState, agentTextResponse, actionsTaken).agentMessage
          = <<"Done!">>

\* the list without the item at position n
Without(list, n) == SubSeq(list, 1, n - 1) \o SubSeq(list, n + 1, Len(list))

\* the blocks handled so far
Handled == [i \in DOMAIN processed |-> processed[i].block]

Delete(identifier) == ToolUse("delete_task", TaskInput(identifier))

\* on the demo store [A, B, C], Delete "1" twice leaves [C] and Delete "1",
\* Delete "2" leaves [B]
C28_Examples ==
    (isLoading /\ currentState.tasks = createDemoState.tasks) =>
        /\ Handled = <<Delete(<<"1">>), Delete(<<"1">>)>>
              => updatedState.tasks = <<createDemoState.tasks[3]>>
        /\ Handled = <<Delete(<<"1">>), Delete(<<"2">>)>>
              => updatedState.tasks = <<createDemoState.tasks[2]>>

\* C28: a Delete whose identifier is the numeral of a position of the store
\* as it stands when the block is handled removes the item at that position
\* of that store, so the items after it are addressed by a position one
\* smaller by the blocks that follow.
C28_PositionInCurrentStore ==
    /\ []C28_Examples
    /\ [][(/\ BlockStep
           /\ ThisBlock.type = "tool_use"
           /\ ThisBlock.name = "delete_task"
           /\ IsNumeral(Normalized(ThisBlock.input.taskIdentifier))
           /\ Decimal(Normalized(ThisBlock.input.taskIdentifier))
                 \in 1..Len(updatedState.tasks))
            => updatedState'.tasks =
                  Without(updatedState.tasks,
                          Decimal(Normalized(ThisBlock.input.taskIdentifier)))]_vars

\* Delete "1" then Delete "2" were handled on the demo store and left its
\* second item
C28_Witness ==
    /\ isLoading
    /\ currentState.tasks = createDemoState.tasks
    /\ Handled = <<Delete(<<"1">>), Delete(<<"2">>)>>
    /\ Len(updatedState.tasks) = 1
    /\ updatedState.tasks[1].id = 2
    /\ actionsTaken = <<<<"Deleted \"">> \o createDemoState.tasks[1].title \o <<"\"">>,
                        <<"Deleted \"">> \o createDemoState.tasks[3].title \o <<"\"">>>>

\* the step ends the request in flight with an error
FailStep ==
    /\ isLoading
    /\ ~isLoading'
    /\ ~AnswerStep

\* C29: a request that fails leaves the items and the filter of the client's
\* store as they are, what the user did by hand during the request included,
\* and sets the message to the error text.
C29_FailureKeepsStore ==
    [][FailStep =>
        /\ state'.tasks = state.tasks
        /\ state'.filter = state.filter
        /\ \E errorMessage \in ErrorMessages :
              state'.agentMessage = <<"\\u26A0\\uFE0F ">> \o errorMessage]_vars

\* a request failed on the demo store, on which the user had set the filter
\* completed:true
C29_Witness ==
    /\ ~isLoading
    /\ state.agentMessage = <<"\\u26A0\\uFE0F ", "Something went wrong">>
    /\ state.tasks = createDemoState.tasks
    /\ state.filter = s_completed_true

\* C30: an identifier that is empty or all white space resolves to the first
\* item of a list that has items (every title contains the empty string), and
\* to no item only on the empty list.
C30_BlankIdentifierIsFirstItem ==
    (Resolved /\ Normalized(call.identifier) = <<>>) =>
        IF state.tasks = <<>>
        THEN call.result = notFound
        ELSE call.result = <<state.tasks[1]>>

\* two spaces resolved on a list of three items
C30_Witness ==
    /\ Resolved
    /\ call.identifier = <<" ", " ">>
    /\ Len(state.tasks) = 3
    /\ call.result = <<state.tasks[1]>>
    /\ call.result[1].id = 1

====
